---- MODULE Spec2Model ----
(***************************************************************************)
(* A model of example_virtual_n5.py: the Flask service that serves a       *)
(* virtual multiscale N5 volume.  The three request handlers               *)
(* (top_level_attributes, attributes, chunk) are modelled statement by     *)
(* statement; every worker thread of the server runs one handler at a      *)
(* time over its own locals and the module-level globals VOL_SHAPE,        *)
(* BLOCK_SHAPE and CHUNK_ENCODER.                                          *)
(*                                                                         *)
(* Numbers.  The gradient values are float32/float64 in the program; the   *)
(* model computes them as exact rationals <<p, q>> in lowest terms.        *)
(*                                                                         *)
(* Blocks.  A block of the program has 128*96*64*3 elements.  The model    *)
(* keeps the value of the block at the index tuples of Indices, a grid of  *)
(* sample positions on every axis (first, middle, last; all three          *)
(* channels), and applies every array operation of the handler to those    *)
(* positions exactly as numpy applies it to all positions.                 *)
(*                                                                         *)
(* Index tuples are written <<x, y, z, c>> with 0-based components, as in  *)
(* the program; the position of axis a in a tuple is a + 1.                *)
(***************************************************************************)
EXTENDS Integers, Sequences, FiniteSets, TLC

VARIABLES
    VOL_SHAPE,      \* module global, numpy array (mutable object)
    BLOCK_SHAPE,    \* module global, numpy array (mutable object)
    CHUNK_ENCODER,  \* module global, the N5ChunkWrapper's configuration
    pc,             \* per worker: position in its handler
    req,            \* per worker: the request being served
    corner,         \* per worker: local `corner`
    box,            \* per worker: local `box`
    sub_box,        \* per worker: local `sub_box`
    box_s0,         \* per worker: local `box_s0`
    block_vol,      \* per worker: local `block_vol`
    chan,           \* per worker: loop variable `c`
    response,       \* per worker: what the handler returned
    err             \* per worker: the exception the handler raised

shared == <<VOL_SHAPE, BLOCK_SHAPE, CHUNK_ENCODER>>
locals == <<corner, box, sub_box, box_s0, block_vol, chan>>
vars == <<VOL_SHAPE, BLOCK_SHAPE, CHUNK_ENCODER, pc, req, corner, box, sub_box,
          box_s0, block_vol, chan, response, err>>

----------------------------------------------------------------------------
(* Bounds of the model *)

\* worker threads of the server process
NumWorkers == 2
\* clients ask for scales 0 .. MAX_SCALE + ExtraScales
ExtraScales == 1
\* clients ask for chunk indices 0 .. MaxChunk on every axis, and for the
\* last chunk of the volume and the one after it
MaxChunk == 1

----------------------------------------------------------------------------
(* Program constants *)

MAX_SCALE == 9
VolShape0 == <<10000, 15000, 20000, 3>>
BlockShape0 == <<128, 96, 64, 3>>
Encoder0 == [dtype |-> "float32", chunk_shape |-> BlockShape0, compressor |-> "gzip"]
HTTP_OK == 200

Workers == 1..NumWorkers
Axes == 1..3

----------------------------------------------------------------------------
(* Arithmetic *)

RECURSIVE Pow2(_)
Pow2(n) == IF n <= 0 THEN 1 ELSE 2 * Pow2(n - 1)

Min(a, b) == IF a <= b THEN a ELSE b
Abs(a) == IF a < 0 THEN -a ELSE a

RECURSIVE GCD(_, _)
GCD(a, b) == IF b = 0 THEN a ELSE GCD(b, a % b)

\* rationals <<p, q>>, q > 0, in lowest terms
Rat(p, q) == LET g == GCD(Abs(p), q) IN <<p \div g, q \div g>>
RatInt(n) == <<n, 1>>
LCM(a, b) == (a \div GCD(a, b)) * b
RatAdd(a, b) ==
    LET l == LCM(a[2], b[2])
    IN  Rat(a[1] * (l \div a[2]) + b[1] * (l \div b[2]), l)
RatSub(a, b) == RatAdd(a, <<-b[1], b[2]>>)
RatMulInt(a, k) ==
    LET g == GCD(Abs(k), a[2])
    IN  IF k = 0 THEN <<0, 1>> ELSE Rat(a[1] * (k \div g), a[2] \div g)
RatDivInt(a, n) ==
    LET g == GCD(Abs(a[1]), n)
    IN  IF a[1] = 0 THEN <<0, 1>> ELSE Rat(a[1] \div g, a[2] * (n \div g))
RatLess(a, b) ==
    LET l == LCM(a[2], b[2])
    IN  a[1] * (l \div a[2]) < b[1] * (l \div b[2])
RatLeq(a, b) == a = b \/ RatLess(a, b)

----------------------------------------------------------------------------
(* Arrays *)

\* shape[::-1] of a 4-tuple, and the index tuple of a reversed-axes view
Rev(t) == <<t[4], t[3], t[2], t[1]>>

\* the positions the model keeps of an axis of length n
Samples(n) == {k \in {0, n \div 2, n - 1} : 0 <= k /\ k < n}

\* the index tuples the model keeps of a 4-dimensional array of shape shp
Indices(shp) ==
    {<<i, j, k, l>> : i \in Samples(shp[1]), j \in Samples(shp[2]),
                      k \in Samples(shp[3]), l \in Samples(shp[4])}

\* np.zeros(shape, np.float32)
Zeros(shp) == [i \in Indices(shp) |-> RatInt(0)]

\* an axis-reversed view: arr.T[i] = arr[reversed i]
TransposeMoveChannel(arr) ==
    [i \in {<<j[4], j[1], j[2], j[3]>> : j \in DOMAIN arr}
        |-> arr[<<i[2], i[3], i[4], i[1]>>]]
Transpose(arr) == [i \in {Rev(j) : j \in DOMAIN arr} |-> arr[Rev(i)]]

\* np.interp(x, xp, fp) for two breakpoints: constant outside [xp[1], xp[2]]
Interp(x, xp, fp) ==
    IF x <= xp[1] THEN RatInt(fp[1])
    ELSE IF x >= xp[2] THEN RatInt(fp[2])
    ELSE Rat(fp[1] * (xp[2] - xp[1]) + (x - xp[1]) * (fp[2] - fp[1]), xp[2] - xp[1])

\* element k of np.linspace(start, stop, num, False): start + k * step with
\* step = (stop - start) / num
LinspaceEndpoint(start, stop, num, k) ==
    IF num = 1 THEN start
    ELSE RatAdd(start, RatMulInt(RatDivInt(RatSub(stop, start), num - 1), k))
Linspace(start, stop, num, k) ==
    RatAdd(start, RatMulInt(RatDivInt(RatSub(stop, start), num), k))

----------------------------------------------------------------------------
(* Geometry: the statements of chunk() that compute the boxes *)

\* VOL_SHAPE[:3] // 2**scale
ScaledShapeCeil(vol, scale) ==
    <<(vol[1] + Pow2(scale) - 1) \div Pow2(scale),
      (vol[2] + Pow2(scale) - 1) \div Pow2(scale),
      (vol[3] + Pow2(scale) - 1) \div Pow2(scale)>>
ScaledShape(vol, scale) ==
    <<vol[1] \div Pow2(scale), vol[2] \div Pow2(scale), vol[3] \div Pow2(scale)>>

\* corner = BLOCK_SHAPE[:3] * np.array([chunk_x, chunk_y, chunk_z])
Corner(blk, r) ==
    <<blk[1] * r.chunk_x, blk[2] * r.chunk_y, blk[3] * r.chunk_z>>

\* box = np.array([corner, corner + BLOCK_SHAPE[:3]])
\* box[1] = np.minimum(box[1], VOL_SHAPE[:3] // 2**scale)
ClampedBoxUnclamped(vol, blk, scale, cnr) ==
    <<cnr, <<cnr[1] + blk[1], cnr[2] + blk[2], cnr[3] + blk[3]>> >>
ClampedBox(vol, blk, scale, cnr) ==
    <<cnr, <<Min(cnr[1] + blk[1], ScaledShape(vol, scale)[1]),
             Min(cnr[2] + blk[2], ScaledShape(vol, scale)[2]),
             Min(cnr[3] + blk[3], ScaledShape(vol, scale)[3])>> >>

\* sub_box = box - corner
SubBox(bx, cnr) ==
    << <<bx[1][1] - cnr[1], bx[1][2] - cnr[2], bx[1][3] - cnr[3]>>,
       <<bx[2][1] - cnr[1], bx[2][2] - cnr[2], bx[2][3] - cnr[3]>> >>

\* box_s0 = (2**scale) * box
BoxS0Unscaled(scale, bx) == bx
BoxS0(scale, bx) ==
    << <<Pow2(scale) * bx[1][1], Pow2(scale) * bx[1][2], Pow2(scale) * bx[1][3]>>,
       <<Pow2(scale) * bx[2][1], Pow2(scale) * bx[2][2], Pow2(scale) * bx[2][3]>> >>

\* block_vol = np.zeros(BLOCK_SHAPE[::-1], np.float32).T
NewBlock(blk) == Transpose(Zeros(Rev(blk)))

\* view = np.moveaxis(block_vol[..., c], c, -1)
\* view[..., i0:i1] = np.linspace(v0, v1, i1 - i0, False)
\* The right-hand side is the one-dimensional array lin (kept at the sampled
\* positions of axis c); the assignment broadcasts it over the other axes.
\* (0 <= i0 <= i1 here: a negative sample count raises before the write)
WriteChannel(blockv, c, v0, v1, i0, i1) ==
    LET ks == {i[c + 1] - i0 : i \in {j \in DOMAIN blockv : i0 <= j[c + 1] /\ j[c + 1] < i1}}
        lin == [k \in ks |-> Linspace(v0, v1, i1 - i0, k)]
    IN  [i \in DOMAIN blockv |->
            IF i[4] = c /\ i0 <= i[c + 1] /\ i[c + 1] < i1
            THEN lin[i[c + 1] - i0]
            ELSE blockv[i]]

\* CHUNK_ENCODER.encode(arr): the N5 header of the array, then its elements
\* in the order given (compressed; the compressor is lossless)
Encode(encoder, arr) ==
    [header |-> [mode |-> 0, ndim |-> Len(encoder.chunk_shape),
                 dims |-> encoder.chunk_shape, dtype |-> encoder.dtype],
     compressor |-> encoder.compressor,
     data |-> arr]

----------------------------------------------------------------------------
(* Requests *)

NoRequest == [kind |-> "none"]
NoResponse == [status |-> 0]

ChunkRequest(s, x, y, z, g) ==
    [kind |-> "chunk", scale |-> s, chunk_x |-> x, chunk_y |-> y, chunk_z |-> z,
     chunk_c |-> g]

\* index of the last chunk of the scale-0 volume on axis a
LastChunk(a) == (VolShape0[a] - 1) \div BlockShape0[a]

\* The <int:...> converters of the routes accept the non-negative integers.
Scales == 0..(MAX_SCALE + ExtraScales)
ChunkRange(a) == (0..MaxChunk) \cup {LastChunk(a), LastChunk(a) + 1}
Requests ==
    {ChunkRequest(s, x, y, z, g) :
        s \in Scales, x \in ChunkRange(1), y \in ChunkRange(2), z \in ChunkRange(3),
        g \in {0, 1}}

\* the requests the concurrent clients of SpecThreads send
HotScales == {0, 1}
HotRequests == {ChunkRequest(s, x, 0, 0, 0) : s \in HotScales, x \in 0..1}

----------------------------------------------------------------------------
(* State after import of the module *)

Init ==
    /\ VOL_SHAPE = VolShape0
    /\ BLOCK_SHAPE = BlockShape0
    /\ CHUNK_ENCODER = Encoder0
    /\ pc = [w \in Workers |-> "idle"]
    /\ req = [w \in Workers |-> NoRequest]
    /\ corner = [w \in Workers |-> <<>>]
    /\ box = [w \in Workers |-> <<>>]
    /\ sub_box = [w \in Workers |-> <<>>]
    /\ box_s0 = [w \in Workers |-> <<>>]
    /\ block_vol = [w \in Workers |-> <<>>]
    /\ chan = [w \in Workers |-> 0]
    /\ response = [w \in Workers |-> NoResponse]
    /\ err = [w \in Workers |-> "none"]

----------------------------------------------------------------------------
(* top_level_attributes() and attributes(scale): one statement each *)

TopLevelDoc ==
    [pixelResolution |-> [dimensions |-> <<1, 1, 1, 1>>, unit |-> "nm"],
     ordering |-> "C",
     scales |-> [s \in 0..MAX_SCALE |-> <<Pow2(s), Pow2(s), Pow2(s), 1>>],
     axes |-> <<"x", "y", "z", "c">>,
     units |-> <<"nm", "nm", "nm", "">>,
     translate |-> <<0, 0, 0, 0>>]

ScaleDoc(vol, blk, scale) ==
    [transform |-> [ordering |-> "C",
                    axes |-> <<"x", "y", "z", "c">>,
                    scale |-> <<Pow2(scale), Pow2(scale), Pow2(scale), 1>>,
                    units |-> <<"nm", "nm", "nm">>,
                    translate |-> <<0, 0, 0>>],
     compression |-> [type |-> "gzip", useZlib |-> FALSE, level |-> -1],
     blockSize |-> blk,
     dataType |-> "float32",
     dimensions |-> ScaledShape(vol, scale) \o <<vol[4]>>]

top_level_attributes(w) ==
    /\ pc[w] = "idle"
    /\ req' = [req EXCEPT ![w] = [kind |-> "top_level_attributes"]]
    /\ response' = [response EXCEPT ![w] = [status |-> HTTP_OK, body |-> TopLevelDoc]]
    /\ pc' = [pc EXCEPT ![w] = "done"]
    /\ UNCHANGED <<shared, locals, err>>

attributes(w, scale) ==
    /\ pc[w] = "idle"
    /\ req' = [req EXCEPT ![w] = [kind |-> "attributes", scale |-> scale]]
    /\ response' = [response EXCEPT ![w] =
                      [status |-> HTTP_OK, body |-> ScaleDoc(VOL_SHAPE, BLOCK_SHAPE, scale)]]
    /\ pc' = [pc EXCEPT ![w] = "done"]
    /\ UNCHANGED <<shared, locals, err>>

----------------------------------------------------------------------------
(* chunk(scale, chunk_x, chunk_y, chunk_z, chunk_c) *)

\* the route hands the request to a worker
ChunkReceive(w, r) ==
    /\ pc[w] = "idle"
    /\ req' = [req EXCEPT ![w] = r]
    /\ pc' = [pc EXCEPT ![w] = "assert"]
    /\ UNCHANGED <<shared, locals, response, err>>

\* assert chunk_c == 0
ChunkAssertSkipped(w) ==
    /\ pc[w] = "assert"
    /\ pc' = [pc EXCEPT ![w] = "box"]
    /\ UNCHANGED <<shared, locals, req, response, err>>
ChunkAssert(w) ==
    /\ pc[w] = "assert"
    /\ \/ /\ req[w].chunk_c = 0
          /\ pc' = [pc EXCEPT ![w] = "box"]
          /\ err' = err
       \/ /\ req[w].chunk_c # 0
          /\ pc' = [pc EXCEPT ![w] = "failed"]
          /\ err' = [err EXCEPT ![w] = "AssertionError"]
    /\ UNCHANGED <<shared, locals, req, response>>

\* corner, box, sub_box, box_s0
ChunkBox(w) ==
    /\ pc[w] = "box"
    /\ LET cnr == Corner(BLOCK_SHAPE, req[w])
           bx == ClampedBox(VOL_SHAPE, BLOCK_SHAPE, req[w].scale, cnr)
       IN  /\ corner' = [corner EXCEPT ![w] = cnr]
           /\ box' = [box EXCEPT ![w] = bx]
           /\ sub_box' = [sub_box EXCEPT ![w] = SubBox(bx, cnr)]
           /\ box_s0' = [box_s0 EXCEPT ![w] = BoxS0(req[w].scale, bx)]
    /\ pc' = [pc EXCEPT ![w] = "alloc"]
    /\ UNCHANGED <<shared, block_vol, chan, req, response, err>>

\* block_vol = np.zeros(...).T, then the loop starts at c = 0
ChunkAllocShared(w) ==
    /\ pc[w] = "alloc"
    /\ block_vol' = [v \in Workers |-> NewBlock(BLOCK_SHAPE)]
    /\ chan' = [chan EXCEPT ![w] = 0]
    /\ pc' = [pc EXCEPT ![w] = "loop"]
    /\ UNCHANGED <<shared, corner, box, sub_box, box_s0, req, response, err>>
ChunkAlloc(w) ==
    /\ pc[w] = "alloc"
    /\ block_vol' = [block_vol EXCEPT ![w] = NewBlock(BLOCK_SHAPE)]
    /\ chan' = [chan EXCEPT ![w] = 0]
    /\ pc' = [pc EXCEPT ![w] = "loop"]
    /\ UNCHANGED <<shared, corner, box, sub_box, box_s0, req, response, err>>

\* one iteration of `for c in [0, 1, 2]`
ChunkLoop(w) ==
    /\ pc[w] = "loop"
    /\ LET c == chan[w]
           v0 == Interp(box_s0[w][1][c + 1], <<0, VOL_SHAPE[c + 1]>>, <<0, 1>>)
           v1 == Interp(box_s0[w][2][c + 1], <<0, VOL_SHAPE[c + 1]>>, <<0, 1>>)
           i0 == sub_box[w][1][c + 1]
           i1 == sub_box[w][2][c + 1]
       IN  \/ \* np.linspace raises ValueError for a negative number of samples
              /\ i1 - i0 < 0
              /\ pc' = [pc EXCEPT ![w] = "failed"]
              /\ err' = [err EXCEPT ![w] = "ValueError"]
              /\ UNCHANGED <<block_vol, chan>>
           \/ /\ i1 - i0 >= 0
              /\ block_vol' = [block_vol EXCEPT ![w] = WriteChannel(@, c, v0, v1, i0, i1)]
              /\ chan' = [chan EXCEPT ![w] = IF c < 2 THEN c + 1 ELSE c]
              /\ pc' = [pc EXCEPT ![w] = IF c < 2 THEN "loop" ELSE "encode"]
              /\ err' = err
    /\ UNCHANGED <<shared, corner, box, sub_box, box_s0, req, response>>

\* return (CHUNK_ENCODER.encode(block_vol.T), HTTPStatus.OK, {...})
ChunkEncode(w) ==
    /\ pc[w] = "encode"
    /\ response' = [response EXCEPT ![w] =
                      [status |-> HTTP_OK,
                       body |-> Encode(CHUNK_ENCODER, Transpose(block_vol[w])),
                       content_type |-> "application/octet-stream"]]
    /\ pc' = [pc EXCEPT ![w] = "done"]
    /\ UNCHANGED <<shared, locals, req, err>>

\* the handler has returned or raised: the response goes out and the
\* worker's frame is dropped
Return(w) ==
    /\ pc[w] \in {"done", "failed"}
    /\ pc' = [pc EXCEPT ![w] = "idle"]
    /\ req' = [req EXCEPT ![w] = NoRequest]
    /\ corner' = [corner EXCEPT ![w] = <<>>]
    /\ box' = [box EXCEPT ![w] = <<>>]
    /\ sub_box' = [sub_box EXCEPT ![w] = <<>>]
    /\ box_s0' = [box_s0 EXCEPT ![w] = <<>>]
    /\ block_vol' = [block_vol EXCEPT ![w] = <<>>]
    /\ chan' = [chan EXCEPT ![w] = 0]
    /\ response' = [response EXCEPT ![w] = NoResponse]
    /\ err' = [err EXCEPT ![w] = "none"]
    /\ UNCHANGED shared

ChunkStep(w) ==
    \/ ChunkAssert(w)
    \/ ChunkBox(w)
    \/ ChunkAlloc(w)
    \/ ChunkLoop(w)
    \/ ChunkEncode(w)
    \/ Return(w)

----------------------------------------------------------------------------
(* Specifications *)

\* One request at a time (app.run(threaded=False) under --debug, or a
\* gunicorn worker with --threads 1): worker 1 serves any request.
Next ==
    \/ top_level_attributes(1)
    \/ \E s \in Scales : attributes(1, s)
    \/ \E r \in Requests : ChunkReceive(1, r)
    \/ ChunkStep(1)

Spec == Init /\ [][Next]_vars

\* Threaded server (app.run(threaded=True)): the workers' handlers interleave
\* statement by statement.
NextThreads ==
    \E w \in Workers :
        \/ top_level_attributes(w)
        \/ \E s \in HotScales : attributes(w, s)
        \/ \E r \in HotRequests : ChunkReceive(w, r)
        \/ ChunkStep(w)

SpecThreads == Init /\ [][NextThreads]_vars

----------------------------------------------------------------------------
(* Vocabulary of the properties *)

IsChunk(w) == req[w].kind = "chunk"

\* the iterations of the loop that worker w has completed
NumWritten(w) ==
    IF pc[w] \in {"encode", "done"} THEN 3
    ELSE IF pc[w] = "loop" \/ (pc[w] = "failed" /\ err[w] = "ValueError") THEN chan[w]
    ELSE 0

\* populatedRegion of worker w's chunk on axis a
Populated(w, a) == sub_box[w][2][a] - sub_box[w][1][a]

\* the sampled voxels of channel c that lie in the populated range of axis c
InRange(w, c) ==
    {i \in DOMAIN block_vol[w] : i[4] = c /\ i[c + 1] < sub_box[w][2][c + 1]}

\* the scale-0 coordinate, on axis c, of voxel i of worker w's chunk
BaseCoord(w, c, i) == (corner[w][c + 1] + i[c + 1]) * Pow2(req[w].scale)

\* a request handled alone, from the state after import
SoloCorner(r) == Corner(BlockShape0, r)
SoloBox(r) == ClampedBox(VolShape0, BlockShape0, r.scale, SoloCorner(r))
SoloSubBox(r) == SubBox(SoloBox(r), SoloCorner(r))
SoloBoxS0(r) == BoxS0(r.scale, SoloBox(r))
RECURSIVE SoloBlock(_, _)
SoloBlock(r, n) ==
    IF n = 0 THEN NewBlock(BlockShape0)
    ELSE LET c == n - 1
         IN  WriteChannel(SoloBlock(r, n - 1), c,
                 Interp(SoloBoxS0(r)[1][c + 1], <<0, VolShape0[c + 1]>>, <<0, 1>>),
                 Interp(SoloBoxS0(r)[2][c + 1], <<0, VolShape0[c + 1]>>, <<0, 1>>),
                 SoloSubBox(r)[1][c + 1], SoloSubBox(r)[2][c + 1])
SoloResponse(r) ==
    [status |-> HTTP_OK,
     body |-> Encode(Encoder0, Transpose(SoloBlock(r, 3))),
     content_type |-> "application/octet-stream"]

----------------------------------------------------------------------------
(* Properties *)

\* C1: a chunk request with chunk_c # 0 fails with the assertion error before
\* anything else of the handler runs: its worker is never past the assert, no
\* corner, box or block exists for it and it has no response.
C1_ChannelGroupRejected ==
    \A w \in Workers :
        (IsChunk(w) /\ req[w].chunk_c # 0) =>
            /\ pc[w] \in {"assert", "failed"}
            /\ pc[w] = "failed" => err[w] = "AssertionError"
            /\ corner[w] = <<>> /\ box[w] = <<>> /\ sub_box[w] = <<>>
            /\ box_s0[w] = <<>> /\ block_vol[w] = <<>>
            /\ response[w] = NoResponse

C1_Witness ==
    \E w \in Workers :
        IsChunk(w) /\ req[w].chunk_c # 0 /\ pc[w] = "failed" /\ err[w] = "AssertionError"

\* C2 (as the spec states it): for a valid scale and a chunk whose corner
\* exceeds the scaled volume on some axis, the handler does not fail and the
\* populated region on that axis is 0.
C2_BeyondVolumeServed ==
    \A w \in Workers :
        (IsChunk(w) /\ req[w].chunk_c = 0 /\ req[w].scale <= MAX_SCALE) =>
            \A a \in Axes :
                Corner(BlockShape0, req[w])[a] > VolShape0[a] \div Pow2(req[w].scale) =>
                    /\ pc[w] # "failed"
                    /\ sub_box[w] # <<>> => Populated(w, a) = 0

\* C3 (as the spec states it): no handler answers 200 for a scale above
\* MAX_SCALE.
C3_ScaleRejected ==
    \A w \in Workers :
        (req[w].kind \in {"chunk", "attributes"} /\ req[w].scale > MAX_SCALE) =>
            response[w].status # HTTP_OK

\* C4: the value written for a scale-0 coordinate b on axis c is b / VOL_SHAPE[c],
\* whichever scale and chunk it is read through; two blocks in memory agree on
\* every coordinate they share.
C4_GradientContinuity ==
    \A w \in Workers : \A c \in 0..2 :
        (IsChunk(w) /\ NumWritten(w) > c) =>
            LET Iw == InRange(w, c)
                expected == [k \in {i[c + 1] : i \in Iw} |->
                                Rat((corner[w][c + 1] + k) * Pow2(req[w].scale),
                                    VolShape0[c + 1])]
            IN  /\ \A i \in Iw : block_vol[w][i] = expected[i[c + 1]]
                /\ \A v \in Workers :
                      (v > w /\ IsChunk(v) /\ NumWritten(v) > c) =>
                          LET ks == {j[c + 1] : j \in InRange(v, c)}
                          IN  \A i \in Iw : \A k \in ks :
                                  LET j == [i EXCEPT ![c + 1] = k]
                                  IN  BaseCoord(v, c, j) = BaseCoord(w, c, i) =>
                                          block_vol[v][j] = block_vol[w][i]

\* two blocks read the scale-0 coordinate 128 of axis X: chunk 1 of scale 0 at
\* index 0 and chunk 0 of scale 1 at index 64
C4_Witness ==
    \E w, v \in Workers :
        /\ IsChunk(w) /\ IsChunk(v)
        /\ req[w].scale = 0 /\ req[w].chunk_x = 1 /\ NumWritten(w) > 0
        /\ req[v].scale = 1 /\ req[v].chunk_x = 0 /\ NumWritten(v) > 0
        /\ block_vol[w][<<0, 0, 0, 0>>] = block_vol[v][<<64, 0, 0, 0>>]
        /\ block_vol[w][<<0, 0, 0, 0>>] = <<8, 625>>

\* C5: whatever the interleaving of chunk requests that succeed when handled
\* alone, the globals keep their values, no request fails and every response is
\* that of the request handled alone; a block changes only by a step of the
\* worker that holds it.
C5_Idempotence ==
    /\ [](/\ VOL_SHAPE = VolShape0 /\ BLOCK_SHAPE = BlockShape0
          /\ CHUNK_ENCODER = Encoder0
          /\ \A w \in Workers :
                IsChunk(w) =>
                    /\ pc[w] # "failed"
                    /\ pc[w] = "done" => response[w] = SoloResponse(req[w]))
    /\ [][\A w \in Workers :
            (pc'[w] = pc[w] /\ chan'[w] = chan[w]) => block_vol'[w] = block_vol[w]]_vars

\* two requests for the same address: one answered while the other is in its loop
C5_Witness ==
    \E w, v \in Workers :
        /\ w # v /\ IsChunk(w) /\ req[w] = req[v]
        /\ pc[w] = "done" /\ pc[v] = "loop" /\ chan[v] = 1

\* C6: the array handed to the encoder holds at (c, z, y, x) the value the
\* loop left at (x, y, z, c), for every voxel, under the header of the block
\* shape; reversing the axes of the encoded array gives the block back.
C6_StorageOrder ==
    \A w \in Workers :
        (IsChunk(w) /\ pc[w] = "done") =>
            LET d == response[w].body.data
            IN  /\ response[w].body.header.dims = BlockShape0
                /\ Cardinality(DOMAIN d) = Cardinality(DOMAIN block_vol[w])
                /\ \A i \in DOMAIN block_vol[w] :
                      /\ <<i[4], i[3], i[2], i[1]>> \in DOMAIN d
                      /\ d[<<i[4], i[3], i[2], i[1]>>] = block_vol[w][i]
                /\ Transpose(d) = block_vol[w]

\* chunk (0,0,0) of scale 0: the last Z sample of the blue channel, 63/20000,
\* is at (2, 63, 0, 0) of the encoded array
C6_Witness ==
    \E w \in Workers :
        /\ IsChunk(w) /\ pc[w] = "done"
        /\ block_vol[w][<<0, 0, 63, 2>>] = <<63, 20000>>
        /\ response[w].body.data[<<2, 63, 0, 0>>] = <<63, 20000>>

\* C7: for a valid scale, on every axis: a chunk that ends inside the scaled
\* volume is populated over the whole block; a chunk that starts inside it and
\* ends beyond it is populated up to the volume's end, more than 0 and less
\* than the block.
C7_Clamping ==
    \A w \in Workers :
        (IsChunk(w) /\ sub_box[w] # <<>> /\ req[w].scale <= MAX_SCALE) =>
            \A a \in Axes :
                LET cnr == BlockShape0[a] * <<req[w].chunk_x, req[w].chunk_y, req[w].chunk_z>>[a]
                    ext == VolShape0[a] \div Pow2(req[w].scale)
                IN  /\ cnr + BlockShape0[a] <= ext => Populated(w, a) = BlockShape0[a]
                    /\ (cnr < ext /\ ext < cnr + BlockShape0[a]) =>
                          /\ Populated(w, a) = ext - cnr
                          /\ 0 < Populated(w, a)
                          /\ Populated(w, a) < BlockShape0[a]

\* the far-corner chunk of scale 0 is populated over 16 x 24 x 32 voxels
C7_Witness ==
    \E w \in Workers :
        /\ IsChunk(w) /\ sub_box[w] # <<>> /\ req[w].scale = 0
        /\ req[w].chunk_x = LastChunk(1) /\ req[w].chunk_y = LastChunk(2)
        /\ req[w].chunk_z = LastChunk(3)
        /\ sub_box[w] = << <<0, 0, 0>>, <<16, 24, 32>> >>

\* C8 (as the spec states it): in a returned block, a voxel outside the
\* populated region on some axis is zero in every channel.
C8_ZeroPadding ==
    \A w \in Workers :
        (IsChunk(w) /\ pc[w] = "done") =>
            \A i \in DOMAIN block_vol[w] :
                (\E a \in Axes : i[a] >= sub_box[w][2][a]) => block_vol[w][i] = RatInt(0)

\* C9: once channel c is written and its axis has n > 0 populated entries,
\* entry k < n of the channel is v0 + k * (v1 - v0) / n with v0, v1 the bounds
\* of box_s0 on the axis over VOL_SHAPE[c]; the entries increase strictly with
\* k, and the value is the same at every position of the other two axes.
\* Chunk (0,0,0) of scale 0 has 128 entries on X, starting at 0.
C9_GradientShape ==
    \A w \in Workers : \A c \in 0..2 :
        (IsChunk(w) /\ NumWritten(w) > c /\ Populated(w, c + 1) > 0) =>
            LET n == Populated(w, c + 1)
                lo == box_s0[w][1][c + 1]
                hi == box_s0[w][2][c + 1]
                V == VolShape0[c + 1]
                slab == {i \in DOMAIN block_vol[w] : i[4] = c}
            IN  /\ \A i \in InRange(w, c) :
                      block_vol[w][i] = Rat(lo * n + i[c + 1] * (hi - lo), V * n)
                /\ \A i, j \in InRange(w, c) :
                      i[c + 1] < j[c + 1] => RatLess(block_vol[w][i], block_vol[w][j])
                /\ \A i, j \in slab :
                      i[c + 1] = j[c + 1] => block_vol[w][i] = block_vol[w][j]
                /\ (c = 0 /\ req[w].scale = 0 /\ corner[w] = <<0, 0, 0>>) =>
                      /\ n = 128
                      /\ block_vol[w][<<0, 0, 0, 0>>] = RatInt(0)

C9_Witness ==
    \E w \in Workers :
        /\ IsChunk(w) /\ pc[w] = "done"
        /\ req[w].scale = 0 /\ corner[w] = <<0, 0, 0>>
        /\ block_vol[w][<<0, 0, 0, 0>>] = RatInt(0)
        /\ block_vol[w][<<64, 95, 63, 0>>] = <<4, 625>>
        /\ block_vol[w][<<127, 0, 0, 0>>] = <<127, 10000>>

\* C10: for a valid scale and a chunk whose corner is inside the scaled volume
\* on every axis, the upper bound of box_s0 is at most VOL_SHAPE on every axis
\* and every value of the block is in [0, 1).
C10_UnitRange ==
    \A w \in Workers :
        (/\ IsChunk(w) /\ box_s0[w] # <<>> /\ req[w].scale <= MAX_SCALE
         /\ \A a \in Axes : corner[w][a] < VolShape0[a] \div Pow2(req[w].scale)) =>
            /\ \A a \in Axes : box_s0[w][2][a] <= VolShape0[a]
            /\ block_vol[w] # <<>> =>
                  \A i \in DOMAIN block_vol[w] :
                      /\ 0 <= block_vol[w][i][1]
                      /\ block_vol[w][i][1] < block_vol[w][i][2]

\* chunk (0,0,0) of the top scale: box_s0 ends at 19*512, 29*512, 39*512 and
\* the blue channel reaches 32*512/20000
C10_Witness ==
    \E w \in Workers :
        /\ IsChunk(w) /\ pc[w] = "done" /\ req[w].scale = MAX_SCALE
        /\ box_s0[w][2] = <<9728, 14848, 19968>>
        /\ block_vol[w][<<0, 0, 32, 2>>] = <<512, 625>>

====
